---- MODULE Spec2Model ----
(***************************************************************************)
(* Model of sud.c: a 9x9 Sudoku solved by thread_num racing backtracking   *)
(* searches (solveSudoku / sudokuHelper / isValid), a one-shot latch       *)
(* g_finished guarded by the rwlock `lock`, and the supervisor (main)      *)
(* waiting on the condition variable is_fin under `mutex`.                 *)
(***************************************************************************)
EXTENDS Integers, Sequences, FiniteSets, TLC

\* ---- program constants (sud.c:35-37) ----
BOARDSIZE == 81
GRIDSIZE == 9
LENGTH == 3

\* ---- bounds of the model ----
\* largest thread count argv supplies in the concurrent specification
MaxThreads == 2
\* rand() % 9 is drawn from 0..MaxRand in the concurrent specification
MaxRand == 0

Idx == 0 .. (GRIDSIZE - 1)
Digits == 1 .. GRIDSIZE
Cells == Idx \X Idx

\* no owner of a lock; main as the owner of the mutex; no value returned yet
NoThread == -1
MainThread == -2
NoRet == -1

\* ---- input boards ----
\* a complete valid grid, rows top to bottom
SolvedRows ==
  << <<5,3,4,6,7,8,9,1,2>>,
     <<6,7,2,1,9,5,3,4,8>>,
     <<1,9,8,3,4,2,5,6,7>>,
     <<8,5,9,7,6,1,4,2,3>>,
     <<4,2,6,8,5,3,7,9,1>>,
     <<7,1,3,9,2,4,8,5,6>>,
     <<9,6,1,5,3,7,2,8,4>>,
     <<2,8,7,4,1,9,6,3,5>>,
     <<3,4,5,2,8,6,1,7,9>> >>

SolvedGrid == [r \in Idx |-> [c \in Idx |-> SolvedRows[r + 1][c + 1]]]

\* the grid b with the cells of `cells` emptied
Blank(b, cells) == [r \in Idx |-> [c \in Idx |-> IF <<r, c>> \in cells THEN 0 ELSE b[r][c]]]

\* the grid b with cell (r, c) holding v
Put(b, r, c, v) == [b EXCEPT ![r][c] = v]

\* ---- isValid (sud.c:85-98) ----
\* both block coordinates stepped by i % LENGTH
BlockCellDiagonal(row, column, i) ==
  << (row \div LENGTH) * LENGTH + (i % LENGTH),
     (column \div LENGTH) * LENGTH + (i % LENGTH) >>

\* lines 92-93: the cell the i-th iteration reads in the block of (row, column)
BlockCell(row, column, i) ==
  << (row \div LENGTH) * LENGTH + (i % LENGTH),
     (column \div LENGTH) * LENGTH + (i \div LENGTH) >>

\* the column test left out
ColumnNotChecked(number, b, row, column, i) == FALSE

\* line 89: what the i-th iteration finds in the column
ColumnHit(number, b, row, column, i) == b[i][column] = number

\* the row test left out
RowNotChecked(number, b, row, column, i) == FALSE

\* line 90: what the i-th iteration finds in the row
RowHit(number, b, row, column, i) == b[row][i] = number

\* lines 91-95: what the i-th iteration finds in the block
BlockHit(number, b, row, column, i) ==
  number = b[BlockCell(row, column, i)[1]][BlockCell(row, column, i)[2]]

isValid(number, b, row, column) ==
  ~ \E i \in 0 .. (GRIDSIZE - 1) :
       \/ ColumnHit(number, b, row, column, i)
       \/ RowHit(number, b, row, column, i)
       \/ BlockHit(number, b, row, column, i)

\* ---- sudokuHelper (sud.c:112-153) ----
\* the column wraps and the row stays
NextCellSameRow(row, col) ==
  [row |-> row, col |-> IF col + 1 = GRIDSIZE THEN 0 ELSE col + 1]

\* lines 125-130: the cursor moves one cell on, column fastest, wrapping
NextCell(row, col) ==
  IF col + 1 = GRIDSIZE
  THEN [row |-> IF row + 1 = GRIDSIZE THEN 0 ELSE row + 1, col |-> 0]
  ELSE [row |-> row, col |-> col + 1]

\* ++startV with no wrap
RotateNoWrap(startV) == startV + 1

\* line 140: ++startV, 10 wraps to 1
Rotate(startV) == IF startV + 1 = 10 THEN 1 ELSE startV + 1

\* lines 139-143: the candidate loop from iteration val + 1 on, up to the first
\* candidate isValid accepts; val counts the iterations done
RECURSIVE TryFrom(_, _, _, _, _)
TryFrom(b, row, col, startV, val) ==
  IF val >= GRIDSIZE
  THEN [found |-> FALSE, startV |-> startV, val |-> val]
  ELSE LET s == Rotate(startV)
       IN  IF isValid(s, b, row, col)
           THEN [found |-> TRUE, startV |-> s, val |-> val + 1]
           ELSE TryFrom(b, row, col, s, val + 1)

\* the arguments of a call of sudokuHelper
Call(row, col, startV, nTimes) ==
  [row |-> row, col |-> col, startV |-> startV, nTimes |-> nTimes]

\* an activation of sudokuHelper suspended in a nested call: its cursor after
\* lines 125-130, its startV and loop counter, and whether it is the tail call
\* of line 135 (a given cell) or an iteration of the loop (line 145)
Frame(row, col, startV, val, nTimes, given) ==
  [row |-> row, col |-> col, startV |-> startV, val |-> val, nTimes |-> nTimes,
   given |-> given]

\* what a run of a worker's code up to its next call of sudokuHelper, or up to
\* the return of the outermost call, leaves: ret = NoRet while a call is pending
Pending(b, st, c) == [board |-> b, stack |-> st, call |-> c, ret |-> NoRet]
NoCall == Call(0, 0, 0, 0)
Returned(b, v) == [board |-> b, stack |-> <<>>, call |-> NoCall, ret |-> v]

\* `return 1` (lines 118, 123) passes through every suspended activation:
\* line 135 returns the value, line 146 returns 1
Return1(b, st) == Returned(b, 1)

\* the cell left as the last candidate wrote it
NotCleared(b, f) == b

\* line 151: the cell the activation f branched on is emptied
Backtracked(b, f) == Put(b, f.row, f.col, 0)

RECURSIVE Loop(_, _, _), Return0(_, _)
\* lines 139-152 in the activation f (not on the stack): the next accepted
\* candidate is written and the search calls itself; with none left the cell is
\* cleared and the activation returns 0
Loop(b, st, f) ==
  LET t == TryFrom(b, f.row, f.col, f.startV, f.val)
  IN  IF t.found
      THEN Pending(Put(b, f.row, f.col, t.startV),
                   Append(st, Frame(f.row, f.col, t.startV, t.val, f.nTimes, FALSE)),
                   Call(f.row, f.col, t.startV, f.nTimes + 1))
      ELSE Return0(Backtracked(b, f), st)

\* a failure handed straight to solveSudoku, no caller resuming its loop
GiveUp(b, st) == Returned(b, 0)

\* `return 0` (line 152) to the caller on top of the stack: line 135 passes it
\* on, line 145 goes on with the loop
Return0(b, st) ==
  IF st = <<>>
  THEN Returned(b, 0)
  ELSE LET f == st[Len(st)]
           rest == SubSeq(st, 1, Len(st) - 1)
       IN  IF f.given THEN Return0(b, rest) ELSE Loop(b, rest, f)

\* every cell taken for an empty one
GivenNever(b, n) == FALSE

\* line 133: the cell holds a value already
Given(b, n) == 0 # b[n.row][n.col]

\* lines 122-152 of the call c, entered with the latch unset
Enter(b, st, c) ==
  IF BOARDSIZE = c.nTimes
  THEN Return1(b, st)
  ELSE LET n == NextCell(c.row, c.col)
       IN  IF Given(b, n)
           THEN Pending(b,
                        Append(st, Frame(n.row, n.col, c.startV, 0, c.nTimes, TRUE)),
                        Call(n.row, n.col, c.startV, c.nTimes + 1))
           ELSE Loop(b, st, Frame(n.row, n.col, c.startV, 0, c.nTimes, FALSE))

\* ---- state ----
VARIABLES
  puzzle,      \* main's puzzle[][], read from argv (lines 258-262)
  thread_num,  \* line 265
  task,        \* p[i]->start, p[i]->row, p[i]->col as main set them (lines 291-293)
  board,       \* p[i]->board, the grid worker i searches
  completed,   \* p[i]->completed
  call,        \* per worker: the arguments of its latest call of sudokuHelper
  stack,       \* per worker: the suspended activations of sudokuHelper, outermost first
  ret,         \* per worker: what the outermost sudokuHelper returned, NoRet before
  pc,          \* per worker: the line of solveSudoku / sudokuHelper it is at
  g_finished,  \* line 45
  readers,     \* the threads holding `lock` in read mode
  writer,      \* the thread holding `lock` in write mode, or NoThread
  mutex,       \* the thread holding `mutex`, or NoThread
  mainpc,      \* the line main is at
  destroyed,   \* the coordination objects main has destroyed (lines 315-317)
  reports,     \* how many times buffSudoku + send ran (lines 195-197)
  sent         \* the grids handed to send, in order

vars == << puzzle, thread_num, task, board, completed, call, stack, ret, pc,
           g_finished, readers, writer, mutex, mainpc, destroyed, reports, sent >>

Threads == 0 .. (thread_num - 1)

\* line 291: (float)GRIDSIZE / thread_num * i, truncated on assignment to int
StartOf(n, i) == (GRIDSIZE * i) \div n

\* the process runs until main returns (line 318)
Running == mainpc # "exited"

\* ---- the rwlock `lock` ----
\* a read lock granted while a writer holds the lock
ReadIgnoresWriter(w) == TRUE

\* glibc treats the kind set on line 251 like the default one: a reader is let
\* in whenever no writer holds the lock, waiting writers or not
CanRdLock(w) == writer = NoThread

\* a write lock that excludes nobody
NoExclusion(w) == TRUE

\* a writer is let in when nobody holds the lock. A thread that asks for the
\* write lock while it holds a read lock itself (undefined by POSIX) waits
\* like any other writer under glibc, that is for its own read lock
CanWrLock(w) == writer = NoThread /\ readers = {}

\* ---- solveSudoku (sud.c:166-206) and the calls of sudokuHelper ----
\* line 115
RdLock(w) ==
  /\ Running /\ pc[w] = "rdlock"
  /\ CanRdLock(w)
  /\ readers' = readers \cup {w}
  /\ pc' = [pc EXCEPT ![w] = "test"]
  /\ UNCHANGED << puzzle, thread_num, task, board, completed, call, stack, ret,
                  g_finished, writer, mutex, mainpc, destroyed, reports, sent >>

\* what line 117 finds and does with the read lock: with the latch set the
\* call returns 1 and the lock stays held (line 118); otherwise the lock is
\* released (line 120) and the call runs on
Cancelled(w) == g_finished
AfterTest(w) == IF Cancelled(w) THEN readers ELSE readers \ {w}

\* lines 117-152, up to the next call of sudokuHelper or to line 176
Test(w) ==
  /\ Running /\ pc[w] = "test"
  /\ LET r == IF Cancelled(w)
              THEN Return1(board[w], stack[w])
              ELSE Enter(board[w], stack[w], call[w])
     IN  /\ readers' = AfterTest(w)
         /\ board' = [board EXCEPT ![w] = r.board]
         /\ stack' = [stack EXCEPT ![w] = r.stack]
         /\ ret' = [ret EXCEPT ![w] = r.ret]
         /\ call' = [call EXCEPT ![w] = IF r.ret = NoRet THEN r.call ELSE @]
         /\ pc' = [pc EXCEPT ![w] = IF r.ret = NoRet THEN "rdlock" ELSE "wrlock"]
  /\ UNCHANGED << puzzle, thread_num, task, completed, g_finished, writer, mutex,
                  mainpc, destroyed, reports, sent >>

\* line 176
WrLock(w) ==
  /\ Running /\ pc[w] = "wrlock"
  /\ CanWrLock(w)
  /\ writer' = w
  /\ pc' = [pc EXCEPT ![w] = "check"]
  /\ UNCHANGED << puzzle, thread_num, task, board, completed, call, stack, ret,
                  g_finished, readers, mutex, mainpc, destroyed, reports, sent >>

\* line 179: with the latch set the thread function returns (line 205), and
\* nothing on that path releases the write lock
Check(w) ==
  /\ Running /\ pc[w] = "check"
  /\ pc' = [pc EXCEPT ![w] = IF g_finished = FALSE THEN "mlock" ELSE "done"]
  /\ UNCHANGED << puzzle, thread_num, task, board, completed, call, stack, ret,
                  g_finished, readers, writer, mutex, mainpc, destroyed, reports, sent >>

\* line 180
MutexLock(w) ==
  /\ Running /\ pc[w] = "mlock"
  /\ mutex = NoThread
  /\ mutex' = w
  /\ pc' = [pc EXCEPT ![w] = "set"]
  /\ UNCHANGED << puzzle, thread_num, task, board, completed, call, stack, ret,
                  g_finished, readers, writer, mainpc, destroyed, reports, sent >>

\* lines 181-182
SetFinished(w) ==
  /\ Running /\ pc[w] = "set"
  /\ completed' = [completed EXCEPT ![w] = TRUE]
  /\ g_finished' = TRUE
  /\ pc' = [pc EXCEPT ![w] = "munlock"]
  /\ UNCHANGED << puzzle, thread_num, task, board, call, stack, ret, readers,
                  writer, mutex, mainpc, destroyed, reports, sent >>

\* line 183
MutexUnlock(w) ==
  /\ Running /\ pc[w] = "munlock"
  /\ mutex' = NoThread
  /\ pc' = [pc EXCEPT ![w] = "send"]
  /\ UNCHANGED << puzzle, thread_num, task, board, completed, call, stack, ret,
                  g_finished, readers, writer, mainpc, destroyed, reports, sent >>

\* lines 187-197: the Result Reporter, buffSudoku(data->board) and send
Report(w) ==
  /\ Running /\ pc[w] = "send"
  /\ reports' = reports + 1
  /\ sent' = Append(sent, board[w])
  /\ pc' = [pc EXCEPT ![w] = "rwunlock"]
  /\ UNCHANGED << puzzle, thread_num, task, board, completed, call, stack, ret,
                  g_finished, readers, writer, mutex, mainpc, destroyed >>

\* line 199
RwUnlock(w) ==
  /\ Running /\ pc[w] = "rwunlock"
  /\ writer' = NoThread
  /\ pc' = [pc EXCEPT ![w] = "signal"]
  /\ UNCHANGED << puzzle, thread_num, task, board, completed, call, stack, ret,
                  g_finished, readers, mutex, mainpc, destroyed, reports, sent >>

\* a signal that wakes nobody
NotWoken(m) == m

\* line 202: pthread_cond_signal wakes main if it is blocked in pthread_cond_wait
Woken(m) == IF m = "wait" THEN "woken" ELSE m

Signal(w) ==
  /\ Running /\ pc[w] = "signal"
  /\ mainpc' = Woken(mainpc)
  /\ pc' = [pc EXCEPT ![w] = "done"]
  /\ UNCHANGED << puzzle, thread_num, task, board, completed, call, stack, ret,
                  g_finished, readers, writer, mutex, destroyed, reports, sent >>

\* ---- main (sud.c:308-318) ----
\* line 308
MainLock ==
  /\ mainpc = "lock"
  /\ mutex = NoThread
  /\ mutex' = MainThread
  /\ mainpc' = "test"
  /\ UNCHANGED << puzzle, thread_num, task, board, completed, call, stack, ret, pc,
                  g_finished, readers, writer, destroyed, reports, sent >>

\* line 311, the loop test: with the latch unset pthread_cond_wait releases
\* the mutex and blocks
MainTest ==
  /\ mainpc = "test"
  /\ IF 0 = (IF g_finished THEN 1 ELSE 0)
     THEN mutex' = NoThread /\ mainpc' = "wait"
     ELSE mutex' = mutex /\ mainpc' = "unlock"
  /\ UNCHANGED << puzzle, thread_num, task, board, completed, call, stack, ret, pc,
                  g_finished, readers, writer, destroyed, reports, sent >>

\* pthread_cond_wait may return with no signal sent (a spurious wake-up)
SpuriousWake ==
  /\ mainpc = "wait"
  /\ mainpc' = "woken"
  /\ UNCHANGED << puzzle, thread_num, task, board, completed, call, stack, ret, pc,
                  g_finished, readers, writer, mutex, destroyed, reports, sent >>

\* an `if` in place of the `while`: on to line 314
AfterWaitNoLoop == "unlock"

\* line 311: where main goes on when pthread_cond_wait returns, the loop test
AfterWait == "test"

\* line 311: pthread_cond_wait takes the mutex again before it returns
MainWake ==
  /\ mainpc = "woken"
  /\ mutex = NoThread
  /\ mutex' = MainThread
  /\ mainpc' = AfterWait
  /\ UNCHANGED << puzzle, thread_num, task, board, completed, call, stack, ret, pc,
                  g_finished, readers, writer, destroyed, reports, sent >>

\* line 314
MainUnlock ==
  /\ mainpc = "unlock"
  /\ mutex' = NoThread
  /\ mainpc' = "destroy_mutex"
  /\ UNCHANGED << puzzle, thread_num, task, board, completed, call, stack, ret, pc,
                  g_finished, readers, writer, destroyed, reports, sent >>

\* line 315
MainDestroyMutex ==
  /\ mainpc = "destroy_mutex"
  /\ destroyed' = destroyed \cup {"mutex"}
  /\ mainpc' = "destroy_rwlock"
  /\ UNCHANGED << puzzle, thread_num, task, board, completed, call, stack, ret, pc,
                  g_finished, readers, writer, mutex, reports, sent >>

\* line 316 (glibc: the lock's state is left as it is)
MainDestroyRwlock ==
  /\ mainpc = "destroy_rwlock"
  /\ destroyed' = destroyed \cup {"lock"}
  /\ mainpc' = "destroy_cond"
  /\ UNCHANGED << puzzle, thread_num, task, board, completed, call, stack, ret, pc,
                  g_finished, readers, writer, mutex, reports, sent >>

\* line 317
MainDestroyCond ==
  /\ mainpc = "destroy_cond"
  /\ destroyed' = destroyed \cup {"is_fin"}
  /\ mainpc' = "return"
  /\ UNCHANGED << puzzle, thread_num, task, board, completed, call, stack, ret, pc,
                  g_finished, readers, writer, mutex, reports, sent >>

\* line 318: main returns and the process ends, whatever the workers are doing
MainReturn ==
  /\ mainpc = "return"
  /\ mainpc' = "exited"
  /\ UNCHANGED << puzzle, thread_num, task, board, completed, call, stack, ret, pc,
                  g_finished, readers, writer, mutex, destroyed, reports, sent >>

\* ---- inputs ----
\* three cells emptied: the first has two candidates, one of which fails later
PuzzleBacktrack == Blank(SolvedGrid, {<<3, 2>>, <<3, 4>>, <<4, 2>>})
\* valid givens, no solution: (0,1) has the candidates 3 and 5, and (3,1),
\* visited later, has none (its row lacks only 8, which its column holds)
PuzzleNoSolution == Put(Blank(SolvedGrid, {<<0, 0>>, <<0, 1>>, <<3, 1>>}), 3, 0, 5)

Puzzles == {PuzzleBacktrack, PuzzleNoSolution}

\* ---- the program, from the state main leaves on line 305 ----
\* the state of the workers and of the latch once main has built the tasks
\* (lines 285-294) and created the threads (lines 302-305)
Launched(n, pz, tk) ==
  /\ thread_num = n
  /\ puzzle = pz
  /\ task = tk
  /\ board = [i \in 0 .. (n - 1) |-> pz]
  /\ completed = [i \in 0 .. (n - 1) |-> FALSE]
  /\ call = [i \in 0 .. (n - 1) |-> Call(tk[i].row, tk[i].col, tk[i].start, 0)]
  /\ stack = [i \in 0 .. (n - 1) |-> <<>>]
  /\ ret = [i \in 0 .. (n - 1) |-> NoRet]
  /\ pc = [i \in 0 .. (n - 1) |-> "rdlock"]
  /\ g_finished = FALSE
  /\ readers = {}
  /\ writer = NoThread
  /\ mutex = NoThread
  /\ mainpc = "lock"
  /\ destroyed = {}
  /\ reports = 0
  /\ sent = <<>>

Init ==
  \E n \in 1 .. MaxThreads, pz \in Puzzles :
    \E rw \in [0 .. (n - 1) -> 0 .. MaxRand], cl \in [0 .. (n - 1) -> 0 .. MaxRand] :
      Launched(n, pz, [i \in 0 .. (n - 1) |->
                         [start |-> StartOf(n, i), row |-> rw[i], col |-> cl[i]]])

Main ==
  \/ MainLock
  \/ MainTest
  \/ MainWake
  \/ MainUnlock
  \/ MainDestroyMutex
  \/ MainDestroyRwlock
  \/ MainDestroyCond
  \/ MainReturn

Next ==
  \/ \E w \in Threads : RdLock(w)
  \/ \E w \in Threads : Test(w)
  \/ \E w \in Threads : WrLock(w)
  \/ \E w \in Threads : Check(w)
  \/ \E w \in Threads : MutexLock(w)
  \/ \E w \in Threads : SetFinished(w)
  \/ \E w \in Threads : MutexUnlock(w)
  \/ \E w \in Threads : Report(w)
  \/ \E w \in Threads : RwUnlock(w)
  \/ \E w \in Threads : Signal(w)
  \/ MainLock
  \/ MainTest
  \/ MainWake
  \/ MainUnlock
  \/ MainDestroyMutex
  \/ MainDestroyRwlock
  \/ MainDestroyCond
  \/ MainReturn
  \/ SpuriousWake

Spec == Init /\ [][Next]_vars

\* lines 176-202 of worker w
Finish(w) ==
  \/ WrLock(w)
  \/ Check(w)
  \/ MutexLock(w)
  \/ SetFinished(w)
  \/ MutexUnlock(w)
  \/ Report(w)
  \/ RwUnlock(w)
  \/ Signal(w)

\* The scheduler runs main, and every worker that has left its search,
\* whenever it can take a step; nothing is assumed of the pace of a search,
\* and a spurious wake-up is allowed and never owed.
FairSpec ==
  /\ Init
  /\ [][Next]_vars
  /\ WF_vars(Main)
  /\ \A w \in 0 .. (MaxThreads - 1) : WF_vars(w \in Threads /\ Finish(w))

\* ---- one worker's search run alone, the latch never set ----
PuzzleFull == SolvedGrid

SeqPuzzles == {PuzzleFull, PuzzleBacktrack, PuzzleNoSolution}

\* the values line 291 gives p[i]->start for some thread_num and i
Starts == 0 .. (GRIDSIZE - 1)

SeqInit ==
  \E pz \in SeqPuzzles, r \in Idx, c \in Idx, s \in Starts :
    Launched(1, pz, [i \in {0} |-> [start |-> s, row |-> r, col |-> c]])

SeqNext ==
  \/ \E w \in Threads : RdLock(w)
  \/ \E w \in Threads : Test(w)

SeqSpec == SeqInit /\ [][SeqNext]_vars

\* ---- the program run with one worker, from any cursor ----
\* four cells emptied that can be filled in two ways: 6 7 / 7 6 or 7 6 / 6 7
PuzzleTwoSolutions == Blank(SolvedGrid, {<<0, 3>>, <<0, 4>>, <<3, 3>>, <<3, 4>>})

SoloPuzzles == {PuzzleBacktrack, PuzzleTwoSolutions}

\* thread_num = 1: line 291 gives the offset 0, lines 292-293 any cursor
SoloInit ==
  \E pz \in SoloPuzzles, r \in Idx, c \in Idx :
    Launched(1, pz, [i \in {0} |-> [start |-> StartOf(1, 0), row |-> r, col |-> c]])

SoloSpec == SoloInit /\ [][Next]_vars

\* ---- main building the tasks and creating the threads (sud.c:280-305) ----
\* rand() % 10 in place of rand() % 9
RandMod10 == 0 .. GRIDSIZE

\* lines 292-293: the values of rand() % 9
RandMod9 == 0 .. 8

\* the state before the loop of line 285: the board and thread_num read, no
\* task built
BuildInit ==
  \E n \in 1 .. MaxThreads, pz \in Puzzles :
    /\ thread_num = n
    /\ puzzle = pz
    /\ task = << >>
    /\ board = << >>
    /\ completed = << >>
    /\ call = << >>
    /\ stack = << >>
    /\ ret = << >>
    /\ pc = << >>
    /\ g_finished = FALSE
    /\ readers = {}
    /\ writer = NoThread
    /\ mutex = NoThread
    /\ mainpc = "build"
    /\ destroyed = {}
    /\ reports = 0
    /\ sent = <<>>

\* the loop counter i of line 285: the tasks built so far
Built == Cardinality(DOMAIN task)

\* lines 286-293, one iteration: rand() is called twice in every iteration
BuildTask(r, c) ==
  /\ mainpc = "build"
  /\ Built < thread_num
  /\ task' = [j \in 0 .. Built |->
                IF j = Built
                THEN [start |-> StartOf(thread_num, Built), row |-> r, col |-> c]
                ELSE task[j]]
  /\ board' = [j \in 0 .. Built |-> IF j = Built THEN puzzle ELSE board[j]]
  /\ completed' = [j \in 0 .. Built |-> IF j = Built THEN FALSE ELSE completed[j]]
  /\ UNCHANGED << puzzle, thread_num, call, stack, ret, pc, g_finished, readers,
                  writer, mutex, mainpc, destroyed, reports, sent >>

\* lines 302-305: every thread is created, about to make the call of line 173
CreateThreads ==
  /\ mainpc = "build"
  /\ Built = thread_num
  /\ call' = [i \in Threads |-> Call(task[i].row, task[i].col, task[i].start, 0)]
  /\ stack' = [i \in Threads |-> <<>>]
  /\ ret' = [i \in Threads |-> NoRet]
  /\ pc' = [i \in Threads |-> "rdlock"]
  /\ mainpc' = "lock"
  /\ UNCHANGED << puzzle, thread_num, task, board, completed, g_finished, readers,
                  writer, mutex, destroyed, reports, sent >>

BuildNext ==
  \/ \E r \in RandMod9, c \in RandMod9 : BuildTask(r, c)
  \/ CreateThreads

BuildSpec == BuildInit /\ [][BuildNext]_vars

\* ---- main reading the board from argv (sud.c:244, 258-262) ----
\* the most non-zero cells of an input board in ParseSpec
MaxGivens == 1

\* line 244
EmptyGrid == [r \in Idx |-> [c \in Idx |-> 0]]

\* the position of a cell in argv
ArgIndex(r, c) == r * GRIDSIZE + c

NonZero(b) == {cell \in Cells : b[cell[1]][cell[2]] # 0}

ParseInit ==
  /\ thread_num = 0
  /\ puzzle = EmptyGrid
  /\ task = << >>
  /\ board = << >>
  /\ completed = << >>
  /\ call = << >>
  /\ stack = << >>
  /\ ret = << >>
  /\ pc = << >>
  /\ g_finished = FALSE
  /\ readers = {}
  /\ writer = NoThread
  /\ mutex = NoThread
  /\ mainpc = "argv"
  /\ destroyed = {}
  /\ reports = 0
  /\ sent = <<>>

\* line 260 storing a non-zero cell; the cells are read in argv order, and a
\* cell given as 0 stays as line 244 left it
ReadCell(r, c, v) ==
  /\ mainpc = "argv"
  /\ \A cell \in NonZero(puzzle) : ArgIndex(cell[1], cell[2]) < ArgIndex(r, c)
  /\ puzzle' = Put(puzzle, r, c, v)
  /\ UNCHANGED << thread_num, task, board, completed, call, stack, ret, pc,
                  g_finished, readers, writer, mutex, mainpc, destroyed, reports, sent >>

ParseNext ==
  /\ Cardinality(NonZero(puzzle)) < MaxGivens
  /\ \E r \in Idx, c \in Idx, v \in Digits : ReadCell(r, c, v)

ParseSpec == ParseInit /\ [][ParseNext]_vars

\* ---- what a solution is ----
\* every row, column and 3x3 block of b holds each digit 1..9
IsComplete(b) ==
  /\ \A r \in Idx : {b[r][c] : c \in Idx} = Digits
  /\ \A c \in Idx : {b[r][c] : r \in Idx} = Digits
  /\ \A br \in 0 .. (LENGTH - 1), bc \in 0 .. (LENGTH - 1) :
       {b[br * LENGTH + i][bc * LENGTH + j] :
          i \in 0 .. (LENGTH - 1), j \in 0 .. (LENGTH - 1)} = Digits

\* b keeps every given of p
KeepsGivens(b, p) == \A r \in Idx, c \in Idx : p[r][c] # 0 => b[r][c] = p[r][c]

SolutionOf(b, p) == IsComplete(b) /\ KeepsGivens(b, p)

Fill(p, f) == [r \in Idx |-> [c \in Idx |-> IF p[r][c] = 0 THEN f[<<r, c>>] ELSE p[r][c]]]

HasSolution(p) == \E f \in [Cells \ NonZero(p) -> Digits] : IsComplete(Fill(p, f))

SolvablePuzzles == {p \in Puzzles \cup SeqPuzzles : HasSolution(p)}

\* the complete grids that keep the givens of p
SolutionsOf(p) ==
  {Fill(p, f) : f \in {g \in [Cells \ NonZero(p) -> Digits] : IsComplete(Fill(p, g))}}

\* the boards of SeqSpec with exactly one solution, each with that solution
UniquePuzzles == {p \in SeqPuzzles : Cardinality(SolutionsOf(p)) = 1}
TheSolution == [p \in UniquePuzzles |-> CHOOSE b \in SolutionsOf(p) : TRUE]

\* ======================= the claims =======================

\* main is in or before its wait loop (lines 308-311)
MainInLoop == mainpc \in {"lock", "test", "wait", "woken"}

\* worker w found g_finished = 0 on line 179 and is on lines 180-202, or was
Won(w) ==
  \/ pc[w] \in {"mlock", "set", "munlock", "send", "rwunlock", "signal"}
  \/ pc[w] = "done" /\ completed[w]

\* C1: in every interleaving at most one worker finds g_finished false under
\* the write lock and goes on to set it and to report, the Reporter runs at
\* most once, and g_finished, once true, stays true.
C1_AtMostOneReporter ==
  /\ [](Cardinality({w \in Threads : Won(w)}) <= 1 /\ reports <= 1)
  /\ [][g_finished => g_finished']_vars

\* a loser that finished its own search took the write lock after the winner
\* had reported, found the latch set and returned
C1_Witness ==
  /\ reports = 1
  /\ \E w \in Threads : pc[w] = "done" /\ ~completed[w] /\ ret[w] = 1

\* C2 (as claimed): on a solvable board the process never ends before the
\* Reporter has run exactly once.
C2_ReportedBeforeExit ==
  (puzzle \in SolvablePuzzles /\ mainpc = "exited") => reports = 1

\* C3: on a valid solvable board every grid handed to the Reporter, and the
\* board of every worker on its way to report, is a complete solution that
\* keeps the givens.
C3_ReportedIsSolution ==
  puzzle \in SolvablePuzzles =>
    /\ \A k \in 1 .. Len(sent) : SolutionOf(sent[k], puzzle)
    /\ \A w \in Threads : Won(w) => SolutionOf(board[w], puzzle)

\* the Reporter ran while another worker, cancelled on line 118 with a
\* partly filled board, is on line 176
C3_Witness ==
  /\ puzzle \in SolvablePuzzles
  /\ reports = 1
  /\ \E w \in Threads :
       /\ pc[w] = "wrlock" /\ ret[w] = 1 /\ ~Won(w)
       /\ ~IsComplete(board[w])
       /\ board[w] # puzzle

\* C4 (as claimed), on a solvable board: outside lines 115-120 no worker
\* holds the read lock, so a worker whose call of sudokuHelper has returned
\* holds none.
C4_NoReadLockAfterReturn ==
  puzzle \in SolvablePuzzles =>
    \A w \in Threads : pc[w] # "test" => w \notin readers

\* C5 (as claimed), on a solvable board: no worker waits for the rwlock in a
\* state from which the lock can never be granted: for the write lock while
\* it holds a read lock itself, or for a lock held by a thread that has
\* returned.
C5_NoLoserBlockedForever ==
  puzzle \in SolvablePuzzles =>
    \A w \in Threads :
      /\ ~(pc[w] = "wrlock" /\ w \in readers)
      /\ ~(pc[w] \in {"rdlock", "wrlock"} /\ writer \in Threads /\ pc[writer] = "done")

\* C6 (as claimed): on a board with no solution no search returns, the latch
\* stays unset, nothing is reported and main stays in its wait loop.
C6_HangsWithoutReport ==
  puzzle \notin SolvablePuzzles =>
    /\ \A w \in Threads : ret[w] = NoRet
    /\ ~g_finished
    /\ reports = 0
    /\ MainInLoop

\* C6 (amended): on a board with valid givens and no solution a search that
\* is not cancelled ends by returning failure with the board back at the
\* input, a search returns success only when cancelled, only a worker whose
\* search failed wins the latch, and every grid reported is the unsolved input.
C6_ReportsUnsolvedInput ==
  (puzzle \notin SolvablePuzzles /\ mainpc # "argv") =>
    /\ \A w \in Threads : ret[w] = 0 => board[w] = puzzle
    /\ \A w \in Threads : Won(w) => ret[w] = 0
    /\ \A w \in Threads : ret[w] = 1 => g_finished /\ ~Won(w)
    /\ \A k \in 1 .. Len(sent) : sent[k] = puzzle

\* the search wrote candidates, gave up, and its board was reported
C6_Witness ==
  /\ puzzle \notin SolvablePuzzles
  /\ reports = 1
  /\ sent[1] = puzzle
  /\ \E w \in Threads : Won(w) /\ ret[w] = 0

\* C7: under fair scheduling, once a worker has set g_finished main leaves
\* its wait loop.
C7_SupervisorWakes == g_finished ~> ~MainInLoop

\* the winner has signalled and main is past the loop
C7_Witness ==
  /\ g_finished
  /\ mainpc = "unlock"
  /\ \E w \in Threads : pc[w] = "done" /\ completed[w]

\* C8: main is past its wait loop only with g_finished true.
C8_PastLoopOnlyWhenSolved == ~MainInLoop /\ mainpc # "argv" => g_finished

\* pthread_cond_wait has returned with the latch still unset
C8_Witness == mainpc = "woken" /\ ~g_finished

\* C9: on a board with no empty cell the search never writes, and it returns
\* success from the call at depth 81.
C9_FullBoardUntouched ==
  (mainpc # "argv" /\ \A r \in Idx, c \in Idx : puzzle[r][c] # 0) =>
    \A w \in Threads :
      /\ board[w] = puzzle
      /\ \A k \in 1 .. Len(stack[w]) : stack[w][k].given
      /\ ret[w] # NoRet => ret[w] = 1 /\ call[w].nTimes = BOARDSIZE

C9_Witness ==
  /\ \A r \in Idx, c \in Idx : puzzle[r][c] # 0
  /\ task[0].row = 4 /\ task[0].col = 7 /\ task[0].start = 5
  /\ ret[0] = 1

\* cell (r, c) lies in the 3x3 block of (row, column)
SameBlock(r, c, row, column) ==
  r \div LENGTH = row \div LENGTH /\ c \div LENGTH = column \div LENGTH

\* the cells of the 3x3 block of (row, column)
BlockOf(row, column) == {cell \in Cells : SameBlock(cell[1], cell[2], row, column)}

\* number stands in the row, the column or the block of (row, column)
Occurs(number, b, row, column) ==
  \E r \in Idx, c \in Idx :
    /\ b[r][c] = number
    /\ r = row \/ c = column \/ SameBlock(r, c, row, column)

\* C10: isValid is false exactly when the digit stands in the target's row,
\* column or block, and the block index expression reads exactly the 9 cells
\* of the block.
C10_isValidIffAbsent ==
  \A row \in Idx, column \in Idx :
    /\ {BlockCell(row, column, i) : i \in 0 .. (GRIDSIZE - 1)} = BlockOf(row, column)
    /\ \A number \in Digits :
         isValid(number, puzzle, row, column) = ~Occurs(number, puzzle, row, column)

\* the digit stands in the block of the target only
C10_Witness ==
  /\ puzzle[1][2] = 7
  /\ ~isValid(7, puzzle, 0, 0)
  /\ isValid(7, puzzle, 3, 3)

\* C11: on a board with exactly one solution a search run alone, whatever its
\* starting cursor in 0..8 x 0..8 and its offset in 0..8, ends by returning
\* success with its grid equal to that one solution.
C11_AloneFindsTheSolution ==
  (mainpc # "argv" /\ puzzle \in UniquePuzzles) =>
    \A w \in Threads :
      ret[w] # NoRet => ret[w] = 1 /\ board[w] = TheSolution[puzzle]

\* a search started in mid-grid with offset 5, whose first candidate for
\* (3,2) fails two cells on, has returned
C11_Witness ==
  /\ puzzle = PuzzleBacktrack
  /\ puzzle \in UniquePuzzles
  /\ task[0].row = 3 /\ task[0].col = 1 /\ task[0].start = 5
  /\ ret[0] = 1
  /\ board[0] # puzzle

\* ---- a purely sequential backtracking solve ----
\* the cells are scanned in row-major order from (0,0), cell k being
\* (k div 9, k mod 9), and each empty cell tries 1..9 in this order
NoGrid == [ok |-> FALSE, grid |-> EmptyGrid]

RECURSIVE SeqSolve(_, _), SeqTry(_, _, _)
SeqSolve(b, k) ==
  IF k = BOARDSIZE
  THEN [ok |-> TRUE, grid |-> b]
  ELSE IF b[k \div GRIDSIZE][k % GRIDSIZE] # 0
       THEN SeqSolve(b, k + 1)
       ELSE SeqTry(b, k, 1)

SeqTry(b, k, v) ==
  IF v > GRIDSIZE
  THEN NoGrid
  ELSE IF Occurs(v, b, k \div GRIDSIZE, k % GRIDSIZE)
       THEN SeqTry(b, k, v + 1)
       ELSE LET s == SeqSolve(Put(b, k \div GRIDSIZE, k % GRIDSIZE, v), k + 1)
            IN  IF s.ok THEN s ELSE SeqTry(b, k, v + 1)

\* per board of SoloSpec: the grid of the sequential solve, and all solutions
SequentialSolve == [p \in SoloPuzzles |-> SeqSolve(p, 0).grid]
SoloSolutions == [p \in SoloPuzzles |-> SolutionsOf(p)]

\* C12 (as claimed): with one worker every grid reported on a solvable board
\* is the grid of the sequential solve, whatever the starting cursor.
C12_SameAsSequential ==
  (thread_num = 1 /\ puzzle \in SoloPuzzles) =>
    \A k \in 1 .. Len(sent) : sent[k] = SequentialSolve[puzzle]

\* C12 (amended): with one worker every grid reported on a solvable board is
\* a solution of it, and on a board with exactly one solution it is the grid
\* of the sequential solve, whatever the starting cursor.
C12_SameWhenUnique ==
  (thread_num = 1 /\ puzzle \in SoloPuzzles) =>
    \A k \in 1 .. Len(sent) :
      /\ sent[k] \in SoloSolutions[puzzle]
      /\ Cardinality(SoloSolutions[puzzle]) = 1 => sent[k] = SequentialSolve[puzzle]

\* the single worker, started in mid-grid, reported the one solution
C12_Witness ==
  /\ thread_num = 1
  /\ puzzle = PuzzleBacktrack
  /\ Cardinality(SoloSolutions[puzzle]) = 1
  /\ task[0].row = 3 /\ task[0].col = 1
  /\ reports = 1
  /\ sent[1] = SequentialSolve[puzzle]

\* C13 (as claimed): any two tasks built carry the same starting cursor.
C13_OneSharedCursor ==
  \A i \in DOMAIN task, j \in DOMAIN task :
    task[i].row = task[j].row /\ task[i].col = task[j].col

\* C13 (amended): every task built has a cursor of its own in 0..8 x 0..8,
\* the offset floor(9 * i / thread_num), a copy of the input board and its
\* completion flag unset; the threads are created on these tasks.
C13_CursorPerTask ==
  /\ \A i \in DOMAIN task :
       /\ task[i].row \in Idx /\ task[i].col \in Idx
       /\ task[i].start * thread_num <= GRIDSIZE * i
       /\ GRIDSIZE * i < (task[i].start + 1) * thread_num
  /\ mainpc = "build" =>
       /\ DOMAIN task = 0 .. (Built - 1) /\ Built <= thread_num
       /\ \A i \in DOMAIN task : board[i] = puzzle /\ ~completed[i]
  /\ mainpc = "lock" /\ pc = [i \in Threads |-> "rdlock"] =>
       Launched(thread_num, puzzle, task)

\* two threads are created on tasks whose cursors differ in row and column
C13_Witness ==
  /\ thread_num = 2
  /\ mainpc = "lock"
  /\ task[0].row = 2 /\ task[0].col = 7
  /\ task[1].row = 5 /\ task[1].col = 0
  /\ task[0].start = 0 /\ task[1].start = 4

\* C14 (as claimed), on a solvable board: a worker whose thread function has
\* returned does not own the write lock.
C14_WriteLockReleased ==
  puzzle \in SolvablePuzzles =>
    \A w \in Threads : pc[w] = "done" => writer # w

\* thread w is at a read of g_finished: line 117 or line 179
Reading(w) == pc[w] \in {"test", "check"}

\* C15: the write of g_finished (line 182) is made by a worker that holds the
\* write lock and the mutex, before any other write; a worker reads it
\* holding the rwlock (line 117 in read mode, line 179 in write mode), main
\* reads it holding the mutex (line 311); so while one worker is at the write
\* no other worker and not main is at a read.
C15_NoReadOverlapsWrite ==
  mainpc \notin {"argv", "build"} =>
    /\ \A w \in Threads :
         /\ pc[w] = "test" => w \in readers
         /\ pc[w] = "check" => writer = w
         /\ pc[w] = "set" =>
              /\ writer = w /\ mutex = w /\ ~g_finished
              /\ mainpc # "test"
              /\ \A v \in Threads \ {w} : ~Reading(v) /\ pc[v] # "set"
    /\ mainpc = "test" => mutex = MainThread

\* the winner is at the write while another worker is about to ask for the
\* read lock and main for the mutex
C15_Witness ==
  /\ mainpc = "lock"
  /\ \E w \in Threads, v \in Threads :
       pc[w] = "set" /\ pc[v] = "rdlock" /\ stack[v] # <<>>

\* C16 (as claimed), on a solvable board: once main has destroyed one of the
\* mutex, the rwlock and the condition variable, the winner has released the
\* write lock and has made its call of pthread_cond_signal.
C16_DestroyAfterWinnerDone ==
  (puzzle \in SolvablePuzzles /\ destroyed # {}) =>
    \A w \in Threads : Won(w) => writer # w /\ pc[w] = "done"

\* the non-zero values of the cells of `unit` are pairwise distinct in b: as
\* many values as cells that hold one
Distinct(b, unit) ==
  Cardinality({b[cell[1]][cell[2]] : cell \in unit} \ {0}) =
    Cardinality({cell \in unit : b[cell[1]][cell[2]] # 0})

\* the 9 rows, the 9 columns and the 9 blocks, each as a set of cells
Units ==
  {{<<r, c>> : c \in Idx} : r \in Idx}
    \cup {{<<r, c>> : r \in Idx} : c \in Idx}
    \cup {BlockOf(r * LENGTH, c * LENGTH) : r \in 0 .. (LENGTH - 1), c \in 0 .. (LENGTH - 1)}

\* C17: on a board with valid givens, in every state of a search the non-zero
\* values of the worker's board are pairwise distinct in every row, column
\* and block, and every given holds its input value.
C17_BoardStaysValid ==
  mainpc \notin {"argv", "build"} =>
    \A w \in Threads :
      /\ \A unit \in Units : Distinct(board[w], unit)
      /\ KeepsGivens(board[w], puzzle)

\* in mid-search a cell holds a candidate that is not its value in the
\* solution, the search having started elsewhere than at the first cell
C17_Witness ==
  /\ puzzle = PuzzleBacktrack
  /\ task[0].row = 2 /\ task[0].col = 6 /\ task[0].start = 3
  /\ ret[0] = NoRet
  /\ board[0][3][2] = 6
  /\ TheSolution[puzzle][3][2] = 9

\* the activations on the stack st that branched on an empty cell
Branches(st) == {k \in 1 .. Len(st) : ~st[k].given}

\* the cells where b differs from the input board p
Changed(b, p) == {cell \in Cells : b[cell[1]][cell[2]] # p[cell[1]][cell[2]]}

\* C18: a call of sudokuHelper that has returned failure has left the board
\* as it was when the call was entered: while the search runs the board is
\* the input with, for every suspended activation that branched, its
\* candidate in its cell and nothing else; when the outermost call has
\* returned failure the board is the input.
C18_FailureRestoresBoard ==
  mainpc \notin {"argv", "build"} =>
    \A w \in Threads :
      ret[w] \in {NoRet, 0} =>
        /\ Changed(board[w], puzzle) =
             {<<stack[w][k].row, stack[w][k].col>> : k \in Branches(stack[w])}
        /\ \A k \in Branches(stack[w]) :
             board[w][stack[w][k].row][stack[w][k].col] = stack[w][k].startV

\* the call made with the first candidate of (3,2), which is 6, has returned
\* failure and the loop has got to the fourth candidate, which is 9
C18_Witness ==
  /\ puzzle = PuzzleBacktrack
  /\ task[0].row = 3 /\ task[0].col = 1 /\ task[0].start = 5
  /\ stack[0] # <<>>
  /\ stack[0][1] = Frame(3, 2, 9, 4, 0, FALSE)
  /\ board[0] = Put(puzzle, 3, 2, 9)

\* startV after n iterations of the loop entered with the offset s
RECURSIVE RotateN(_, _)
RotateN(s, n) == IF n = 0 THEN s ELSE Rotate(RotateN(s, n - 1))

\* the offset the activation stack[w][k] was called with (line 173 for the
\* outermost, lines 135 and 145 for the others)
EntryOffset(w, k) == IF k = 1 THEN task[w].start ELSE stack[w][k - 1].startV

\* for every offset 0..9 the nine iterations of the loop give each digit of
\* 1..9 once, the first being one past the offset, with 9 followed by 1
NineDigitsOnceEach ==
  \A s \in 0 .. 9 :
    /\ RotateN(s, 1) = (IF s = 9 THEN 1 ELSE s + 1)
    /\ \A n \in 1 .. (GRIDSIZE - 1) :
         RotateN(s, n + 1) = (IF RotateN(s, n) = 9 THEN 1 ELSE RotateN(s, n) + 1)
    /\ {RotateN(s, n) : n \in 1 .. GRIDSIZE} = Digits

\* C19: the candidate loop tries each digit of 1..9 once, in rotating order
\* from one past the offset of the call, for every offset 0..9; an activation
\* in its n-th iteration holds the offset it was called with rotated n times
\* and has written that value to its cell; offsets stay in 0..9 and every
\* cell value in 0..9, every written one in 1..9.
C19_RotationStaysInRange ==
  /\ NineDigitsOnceEach
  /\ mainpc \notin {"argv", "build"} =>
       \A w \in Threads :
         /\ \A r \in Idx, c \in Idx : board[w][r][c] \in 0 .. 9
         /\ ret[w] = NoRet => call[w].startV \in 0 .. 9
         /\ \A k \in 1 .. Len(stack[w]) :
              /\ EntryOffset(w, k) \in 0 .. 9
              /\ stack[w][k].given =>
                   stack[w][k].val = 0 /\ stack[w][k].startV = EntryOffset(w, k)
              /\ ~stack[w][k].given =>
                   /\ stack[w][k].val \in 1 .. GRIDSIZE
                   /\ stack[w][k].startV = RotateN(EntryOffset(w, k), stack[w][k].val)
                   /\ stack[w][k].startV \in Digits
                   /\ board[w][stack[w][k].row][stack[w][k].col] = stack[w][k].startV

\* a loop entered with the offset 9 has wrapped to 1 and is in its sixth
\* iteration, with 6 written to its cell
C19_Witness ==
  /\ puzzle = PuzzleBacktrack
  /\ task[0].row = 3 /\ task[0].col = 1 /\ task[0].start = 8
  /\ Len(stack[0]) >= 3
  /\ stack[0][1] = Frame(3, 2, 9, 1, 0, FALSE)
  /\ stack[0][3] = Frame(3, 4, 6, 6, 2, FALSE)
  /\ EntryOffset(0, 3) = 9
  /\ board[0][3][4] = 6

\* the cell k steps after (row, col) in row-major order with wrap-around
CellAfter(row, col, k) ==
  << ((row * GRIDSIZE + col + k) % BOARDSIZE) \div GRIDSIZE,
     ((row * GRIDSIZE + col + k) % BOARDSIZE) % GRIDSIZE >>

\* C20: the call at depth k - 1 visits the cell k steps after the starting
\* cursor in row-major order with wrap-around, so a path that has reached
\* depth 81 has visited each of the 81 cells once, the first being the cell
\* after the cursor and the last the cursor's; the cursor of every call and
\* of every activation is in 0..8 x 0..8.
C20_PathVisitsEveryCellOnce ==
  mainpc \notin {"argv", "build"} =>
    \A w \in Threads :
      /\ \A k \in 1 .. Len(stack[w]) :
           /\ stack[w][k].nTimes = k - 1
           /\ <<stack[w][k].row, stack[w][k].col>> = CellAfter(task[w].row, task[w].col, k)
           /\ stack[w][k].row \in Idx /\ stack[w][k].col \in Idx
      /\ ret[w] = NoRet =>
           /\ call[w].nTimes = Len(stack[w])
           /\ <<call[w].row, call[w].col>> =
                CellAfter(task[w].row, task[w].col, call[w].nTimes)
      /\ call[w].row \in Idx /\ call[w].col \in Idx
      /\ call[w].nTimes \in 0 .. BOARDSIZE
      /\ call[w].nTimes = BOARDSIZE =>
           /\ call[w].row = task[w].row /\ call[w].col = task[w].col
           /\ ret[w] = NoRet =>
                {<<stack[w][k].row, stack[w][k].col>> : k \in 1 .. BOARDSIZE} = Cells

\* a path from the cursor (4,7) has reached depth 81: its first activation
\* is on (4,8), its last on (4,7)
C20_Witness ==
  /\ puzzle = PuzzleBacktrack
  /\ task[0].row = 4 /\ task[0].col = 7
  /\ ret[0] = NoRet
  /\ call[0].nTimes = BOARDSIZE
  /\ Len(stack[0]) = BOARDSIZE
  /\ stack[0][1].row = 4 /\ stack[0][1].col = 8
  /\ stack[0][2].row = 5 /\ stack[0][2].col = 0
  /\ stack[0][BOARDSIZE].row = 4 /\ stack[0][BOARDSIZE].col = 7

====
